---- MODULE Spec2Model ----
(***************************************************************************)
(* A model of docread: the document-tree extractor (reader.rs,             *)
(* xtract_text_from_doctree), the context segmenter (matcher.rs,           *)
(* segment_on_regex with first_n_chars / last_n_chars), the archive lister *)
(* (ziphandler.rs) and the parallel dispatch of process_files with its     *)
(* output mutex (reader.rs).                                               *)
(*                                                                         *)
(* Strings are sequences of UTF-8 bytes (integers); every offset is a      *)
(* 0-based byte offset as in Rust, so s[i..j] is SubSeq(s, i+1, j).        *)
(***************************************************************************)
EXTENDS Integers, Sequences, FiniteSets, TLC

VARIABLES
    mode,       \* the component exercised: "seg" | "tree" | "zip" | "trunc" | "proc"
    seg_in,     \* segment_on_regex: the arguments (s, re, context_len) and the build
    fn_pc,      \* "call" before the function under study was applied, "done" after
    seg_out,    \* segment_on_regex: the outcome (meaningful once fn_pc = "done")
    tree_in,    \* xtract_text_from_doctree: the arguments (root, search_re)
    tree_out,   \* xtract_text_from_doctree: the returned Runs (once fn_pc = "done")
    zip_in,     \* zip_to_zipentries: the archive on disk and the argument zip_path
    zip_out,    \* zip_to_zipentries: the returned Result (once fn_pc = "done")
    trunc_in,   \* first_n_chars! / last_n_chars!: the arguments (s, n)
    trunc_out,  \* first_n_chars! / last_n_chars!: what the two macros yield
    world,      \* process_files: the file system, the arguments and the build
    main_pc,    \* process_files: where the calling thread is
    ret,        \* process_files: how it ended ("ok", an error, "panic"), "" while running
    zip_i,      \* process_files: the index of the next archive of `for zip_fname in ..`
    file_surrogates, \* process_files: the work list
    task,       \* per element of the work list: the state of its map / for_each task
    mutex,      \* output_mutex: its holder (0: unlocked) and its poison flag
    out         \* the lines written to the terminal so far, in order

fnVars == <<mode, fn_pc, seg_in, seg_out, tree_in, tree_out,
           zip_in, zip_out, trunc_in, trunc_out>>
procVars == <<world, main_pc, ret, zip_i, file_surrogates, task, mutex, out>>
vars == <<fnVars, procVars>>

\* ------------------------------------------------------------------------
\* Bounds of the model
\* ------------------------------------------------------------------------
MaxLen == 4       \* characters of a run
MaxCtx == 3       \* largest context_len tried (0 is the smallest)
MaxNodes == 4     \* nodes of a document tree below the root
MaxPaths == 3     \* paths the two globs of process_files discover, together
MaxMembers == 3   \* members of an archive handed to zip_to_zipentries on its own

\* ------------------------------------------------------------------------
\* UTF-8 strings
\* ------------------------------------------------------------------------
\* The characters of the model: 'a', 'b' (one byte each) and U+00E9 (two bytes).
Chr_a == <<97>>
Chr_b == <<98>>
Chr_e == <<195, 169>>
Chars == {Chr_a, Chr_b, Chr_e}

RECURSIVE StringsOfLen(_, _)
StringsOfLen(cs, n) ==
    IF n = 0 THEN {<<>>}
    ELSE {c \o t : c \in cs, t \in StringsOfLen(cs, n - 1)}

StringsUpTo(cs, n) == UNION {StringsOfLen(cs, k) : k \in 0..n}

\* A continuation byte of a multi-byte code point (0b10xxxxxx).
IsCont(b) == b >= 128 /\ b <= 191

\* str::is_char_boundary
IsCharBoundary(s, i) ==
    \/ i = 0
    \/ i = Len(s)
    \/ i > 0 /\ i < Len(s) /\ ~IsCont(s[i + 1])

\* &s[i..j]
Slice(s, i, j) == SubSeq(s, i + 1, j)

\* s.char_indices(): the byte offsets at which the characters of s start.
RECURSIVE CharIndicesFrom(_, _)
CharIndicesFrom(s, i) ==
    IF i >= Len(s) THEN <<>>
    ELSE IF IsCont(s[i + 1]) THEN CharIndicesFrom(s, i + 1)
    ELSE <<i>> \o CharIndicesFrom(s, i + 1)

CharIndices(s) == CharIndicesFrom(s, 0)

\* s.chars().count()
NumChars(s) == Len(CharIndices(s))

\* usize::MAX, standing in the model for the value 0usize - 1 wraps to
\* (larger than the length of any string).
USIZE_MAX == 2147483647

\* ------------------------------------------------------------------------
\* matcher.rs: first_n_chars! and last_n_chars!
\* ------------------------------------------------------------------------
\* Counting bytes instead of characters.
first_n_bytes(s, n) == Slice(s, 0, IF n < Len(s) THEN n ELSE Len(s))

\* s.char_indices().nth(n).map(|(i, _)| &s[..i]).unwrap_or(s)
first_n_chars(s, n) ==
    LET ci == CharIndices(s)
    IN  IF n < Len(ci) THEN Slice(s, 0, ci[n + 1]) ELSE s

\* `$n - 1` on usize: with overflow checks (debug build) 0 - 1 panics,
\* without them (release build) it wraps to usize::MAX.
SubOneOverflows(n, overflow_checks) == n = 0 /\ overflow_checks

SubOneWrapping(n) == IF n = 0 THEN USIZE_MAX ELSE n - 1

\* s.char_indices().rev().nth(n - 1).map(|(i, _)| &s[i..len]).unwrap_or(s),
\* for the case that `n - 1` did not panic.
last_n_chars(s, n) ==
    LET ci == CharIndices(s)
        k  == SubOneWrapping(n)
    IN  IF k < Len(ci) THEN Slice(s, ci[Len(ci) - k], Len(s)) ELSE s

\* ------------------------------------------------------------------------
\* The pattern (regex::Regex)
\* ------------------------------------------------------------------------
\* A pattern is an ordered alternation of literal strings, alt1|alt2|...,
\* an alternative possibly empty: [Tt]h is Th|th, and a| matches "a" or, failing
\* that, the empty string.  Matching is leftmost-first, as in the regex crate.

\* The first alternative that matches s at byte offset i, 0 if none does.
AltAt(re, s, i) ==
    LET hits == {k \in 1..Len(re) :
                    /\ i + Len(re[k]) <= Len(s)
                    /\ Slice(s, i, i + Len(re[k])) = re[k]}
    IN  IF hits = {} THEN 0
        ELSE CHOOSE k \in hits : \A j \in hits : k <= j

NoMatch == [start |-> -1, end |-> -1]

\* Regex::find_at: the leftmost match starting at or after `from`; a match
\* starts at a character boundary only.
FindAt(re, s, from) ==
    LET starts == {i \in from..Len(s) : IsCharBoundary(s, i) /\ AltAt(re, s, i) # 0}
    IN  IF starts = {} THEN NoMatch
        ELSE LET i == CHOOSE i \in starts : \A j \in starts : i <= j
             IN  [start |-> i, end |-> i + Len(re[AltAt(re, s, i)])]

\* Regex::is_match
is_match(re, s) == FindAt(re, s, 0) # NoMatch

\* The offset after the character that starts at i (i + 1 at the end of s).
NextAfterEmpty(s, i) ==
    IF i >= Len(s) THEN i + 1
    ELSE CHOOSE j \in (i + 1)..Len(s) :
            /\ IsCharBoundary(s, j)
            /\ \A k \in (i + 1)..(j - 1) : ~IsCharBoundary(s, k)

\* Regex::find_iter: the successive non-overlapping matches.  After an empty
\* match the search resumes one character later, and an empty match at the
\* end of the previous match is skipped.  last_match is -1 for None.
RECURSIVE FindIterFrom(_, _, _, _)
FindIterFrom(re, s, last_end, last_match) ==
    IF last_end > Len(s) THEN <<>>
    ELSE LET m == FindAt(re, s, last_end)
         IN  IF m = NoMatch THEN <<>>
             ELSE IF m.start = m.end
                  THEN IF m.end = last_match
                       THEN FindIterFrom(re, s, NextAfterEmpty(s, m.end), last_match)
                       ELSE <<m>> \o FindIterFrom(re, s, NextAfterEmpty(s, m.end), m.end)
                  ELSE <<m>> \o FindIterFrom(re, s, m.end, m.end)

find_iter(re, s) == FindIterFrom(re, s, 0, -1)

\* ------------------------------------------------------------------------
\* matcher.rs: MatchTriple and segment_on_regex
\* ------------------------------------------------------------------------
MatchTriple(pre, m, post) == [preamble |-> pre, matched |-> m, postamble |-> post]

\* MatchTriple::from_iter: a missing element defaults to the empty string.
from_iter(chunk) ==
    MatchTriple(IF Len(chunk) >= 1 THEN chunk[1] ELSE <<>>,
                IF Len(chunk) >= 2 THEN chunk[2] ELSE <<>>,
                IF Len(chunk) >= 3 THEN chunk[3] ELSE <<>>)

\* segments.chunks(3)
RECURSIVE Chunks3(_)
Chunks3(segments) ==
    IF Len(segments) = 0 THEN <<>>
    ELSE IF Len(segments) <= 3 THEN <<segments>>
    ELSE <<SubSeq(segments, 1, 3)>> \o Chunks3(SubSeq(segments, 4, Len(segments)))

\* `if end_of_prev_match > 0`: is there a previous match whose postamble is due?
HasPrevMatch(end_of_prev_match, k) == end_of_prev_match > 0

\* The body of `for m in re.find_iter(s)` run for the matches ms[k..]:
\* the state is (segments, start, end_of_prev_match); a panic in last_n_chars!
\* ends the function.
RECURSIVE SegLoop(_, _, _, _, _, _, _, _)
SegLoop(s, ms, k, segments, start, end_of_prev_match, context_len, overflow_checks) ==
    IF k > Len(ms)
    THEN [panicked |-> FALSE, segments |-> segments, start |-> start]
    ELSE LET m        == ms[k]
             end      == m.start
             withPost == IF HasPrevMatch(end_of_prev_match, k)
                         THEN Append(segments,
                                  first_n_chars(Slice(s, end_of_prev_match, end), context_len))
                         ELSE segments
             matched  == Slice(s, m.start, m.end)
         IN  IF SubOneOverflows(context_len, overflow_checks)
             THEN [panicked |-> TRUE, segments |-> withPost, start |-> start]
             ELSE SegLoop(s, ms, k + 1,
                          withPost \o <<last_n_chars(Slice(s, start, end), context_len), matched>>,
                          end + Len(matched), m.end, context_len, overflow_checks)

\* Comparing with the offset of the last byte: a trailing text of one byte
\* is dropped.
PushTailOffByOne(s, ms, segments, start, context_len) ==
    IF start + 1 < Len(s)
    THEN Append(segments, first_n_chars(Slice(s, start, Len(s)), context_len))
    ELSE segments

\* `if start < s.len()`: the trailing postamble.
PushTail(s, ms, segments, start, context_len) ==
    IF start < Len(s)
    THEN Append(segments, first_n_chars(Slice(s, start, Len(s)), context_len))
    ELSE segments

\* segment_on_regex(s, re, context_len); overflow_checks is the build's
\* setting.  The outcome is a panic or the returned Vec<MatchTriple>.
segment_on_regex(s, re, context_len, overflow_checks) ==
    LET ms   == find_iter(re, s)
        loop == SegLoop(s, ms, 1, <<>>, 0, 0, context_len, overflow_checks)
    IN  IF loop.panicked
        THEN [panicked |-> TRUE, triples |-> <<>>]
        ELSE LET segments == PushTail(s, ms, loop.segments, loop.start, context_len)
                 chunks   == Chunks3(segments)
             IN  [panicked |-> FALSE,
                  triples  |-> [i \in 1..Len(chunks) |-> from_iter(chunks[i])]]

\* ------------------------------------------------------------------------
\* main.rs: the segment_on_regex of the earlier single-file program, which
\* has no context_len and pushes the whole gaps
\* ------------------------------------------------------------------------
\* MatchTriple::from_iter of main.rs
main_from_iter(chunk) ==
    MatchTriple(IF Len(chunk) >= 1 THEN chunk[1] ELSE <<>>,
                IF Len(chunk) >= 2 THEN chunk[2] ELSE <<>>,
                IF Len(chunk) >= 3 THEN chunk[3] ELSE <<>>)

\* The body of `for m in re.find_iter(s)` of main.rs for the matches ms[k..].
RECURSIVE main_SegLoop(_, _, _, _, _, _)
main_SegLoop(s, ms, k, segments, start, end_of_prev_match) ==
    IF k > Len(ms)
    THEN [segments |-> segments, start |-> start]
    ELSE LET m        == ms[k]
             end      == m.start
             withPost == IF end_of_prev_match > 0
                         THEN Append(segments, Slice(s, end_of_prev_match, end))
                         ELSE segments
             matched  == Slice(s, m.start, m.end)
         IN  main_SegLoop(s, ms, k + 1,
                          withPost \o <<Slice(s, start, end), matched>>,
                          end + Len(matched), m.end)

\* `if start < s.len() { segments.push(s[start..].to_string()) }` of main.rs
main_PushTail(s, segments, start) ==
    IF start < Len(s) THEN Append(segments, Slice(s, start, Len(s))) ELSE segments

\* segment_on_regex(s, re) of main.rs
main_segment_on_regex(s, re) ==
    LET ms     == find_iter(re, s)
        loop   == main_SegLoop(s, ms, 1, <<>>, 0, 0)
        chunks == Chunks3(main_PushTail(s, loop.segments, loop.start))
    IN  [i \in 1..Len(chunks) |-> main_from_iter(chunks[i])]

\* ------------------------------------------------------------------------
\* Inputs of the segmenter
\* ------------------------------------------------------------------------
Runs == StringsUpTo(Chars, MaxLen)

\* The alternatives of a pattern: at most two characters of 'a' and U+00E9.
PatChars == {Chr_a, Chr_e}
AltStrings == {<<>>} \cup PatChars \cup {c \o d : c \in PatChars, d \in PatChars}
Patterns == {<<x>> : x \in AltStrings} \cup {<<x, y>> : x \in AltStrings, y \in AltStrings}

SegInputs ==
    [s : Runs, re : Patterns, context_len : 0..MaxCtx, overflow_checks : BOOLEAN]

NoSegInput == [s |-> <<>>, re |-> <<>>, context_len |-> 0, overflow_checks |-> FALSE]
NoSegOutput == [panicked |-> FALSE, triples |-> <<>>]
NoTree == [n |-> 0, parent |-> <<>>, node |-> <<>>]
NoTreeInput == [root |-> NoTree, search_re |-> <<>>]
NoZipInput == [archive |-> [corrupt |-> FALSE, members |-> <<>>], zip_path |-> ""]
NoZipOutput == [ok |-> FALSE, entries |-> <<>>]
NoTruncInput == [s |-> <<>>, n |-> 0, overflow_checks |-> FALSE]
NoTruncOutput == [first |-> <<>>, last_panicked |-> FALSE, last |-> <<>>]

\* ------------------------------------------------------------------------
\* The document tree (the serde_json::Value that read_docx(..).json() yields)
\* ------------------------------------------------------------------------
\* A tree has the nodes 1..n below the root.  Node i stands for the JSON object
\*   {"type": type[i], "data": {"text": text[i], "children": [...]}}
\* whose "children" array holds the nodes with parent[i'] = i in ascending
\* order; parent 0 is root["document"]["children"].  Numbering the nodes in
\* any order that puts a parent before its children and siblings in array
\* order gives every ordered tree.  A "run" node is an interior node (a
\* paragraph, a run, a table cell ...) and has a "children" array, possibly
\* empty; a "text" node is a leaf with its text; a "deleteText" node is a leaf
\* with a text and a type other than "text".
Txt_a  == Chr_a
Txt_ab == Chr_a \o Chr_b
Txt_b  == Chr_b

NodeShapes ==
    { [type |-> "run", text |-> <<>>],
      [type |-> "text", text |-> Txt_a],
      [type |-> "text", text |-> Txt_ab],
      [type |-> "text", text |-> Txt_b],
      [type |-> "deleteText", text |-> Txt_a] }

TreesOfSize(n) ==
    { [n |-> n, parent |-> p, node |-> nd] :
        p \in {q \in [1..n -> 0..n] : \A i \in 1..n : q[i] < i},
        nd \in [1..n -> NodeShapes] }

\* child["data"]["children"].as_array() is Some(..)
HasChildrenArray(tree, i) == tree.node[i].type = "run"

\* Only a node with a "children" array has children.
WellFormedTree(tree) ==
    \A i \in 1..tree.n : tree.parent[i] = 0 \/ HasChildrenArray(tree, tree.parent[i])

Trees == UNION { {tr \in TreesOfSize(n) : WellFormedTree(tr)} : n \in 0..MaxNodes }

\* The ascending sequence of the elements of a finite set of integers.
RECURSIVE SortedSeq(_)
SortedSeq(S) ==
    IF S = {} THEN <<>>
    ELSE LET m == CHOOSE x \in S : \A y \in S : x <= y
         IN  <<m>> \o SortedSeq(S \ {m})

\* The "children" array of node p (p = 0: of root["document"]).
Children(tree, p) == SortedSeq({i \in 1..tree.n : tree.parent[i] = p})

\* ------------------------------------------------------------------------
\* reader.rs: xtract_text_from_doctree
\* ------------------------------------------------------------------------
\* Pushing the children at the front of the queue: a depth-first traversal.
PushFrontAll(queue, children) == children \o queue

\* `for child in children { queue.push_back(child) }`
PushBackAll(queue, children) == queue \o children

\* Collecting every text, matching or not.
CollectAny(matching_runs, text, search_re) == Append(matching_runs, text)

\* `if search_re.is_match(text) { matching_runs.push(text.to_string()) }`
CollectIfMatch(matching_runs, text, search_re) ==
    IF is_match(search_re, text) THEN Append(matching_runs, text) ELSE matching_runs

\* `while let Some(child) = queue.pop_front() { ... }`
RECURSIVE XtractLoop(_, _, _, _)
XtractLoop(tree, search_re, queue, matching_runs) ==
    IF queue = <<>> THEN matching_runs
    ELSE LET child == Head(queue)
             rest  == Tail(queue)
         IN  IF tree.node[child].type = "text"
             THEN XtractLoop(tree, search_re, rest,
                             CollectIfMatch(matching_runs, tree.node[child].text, search_re))
             ELSE IF HasChildrenArray(tree, child)
             THEN XtractLoop(tree, search_re,
                             PushBackAll(rest, Children(tree, child)), matching_runs)
             ELSE XtractLoop(tree, search_re, rest, matching_runs)

xtract_text_from_doctree(tree, search_re) ==
    XtractLoop(tree, search_re, PushBackAll(<<>>, Children(tree, 0)), <<>>)

\* ------------------------------------------------------------------------
\* The file system process_files works on
\* ------------------------------------------------------------------------
\* What a path or an archive member holds: nothing readable (the open or the
\* read fails), bytes that are no docx document, or a docx document, given by
\* the tree its decoding yields.
Unreadable == [kind |-> "unreadable", root |-> NoTree]
Garbage    == [kind |-> "garbage", root |-> NoTree]
Docx(tree) == [kind |-> "docx", root |-> tree]

Txt_aba == Chr_a \o Chr_b \o Chr_a

\* A document with two matching runs for the pattern a: "a" at the top level
\* and, below a paragraph that comes first, "aba" (two occurrences).
DocMatch ==
    Docx([n |-> 4, parent |-> <<0, 0, 1, 1>>,
          node |-> <<[type |-> "run", text |-> <<>>],
                     [type |-> "text", text |-> Txt_a],
                     [type |-> "text", text |-> Txt_aba],
                     [type |-> "text", text |-> Txt_b]>>])

\* A document without a matching run.
DocNone ==
    Docx([n |-> 2, parent |-> <<0, 1>>,
          node |-> <<[type |-> "run", text |-> <<>>],
                     [type |-> "text", text |-> Txt_b]>>])

\* What a plain file holds (a document without a match comes in an archive).
FileContents == {Unreadable, Garbage, DocMatch}

\* An archive: unreadable as a zip archive, or its members in index order.  A
\* member name is the sequence of its pieces, so that ends_with and contains
\* are decided on the name.
ArchCorrupt == [corrupt |-> TRUE, members |-> <<>>]

ArchMixed ==
    [corrupt |-> FALSE,
     members |-> <<[name |-> <<"report", ".docx">>, content |-> DocNone],
                   [name |-> <<"__MACOSX", "/", "report", ".docx">>, content |-> Garbage],
                   [name |-> <<"notes", ".txt">>, content |-> Garbage]>>]

\* An archive whose one document cannot be read (the member vanished or is
\* damaged after the listing).
ArchGone ==
    [corrupt |-> FALSE,
     members |-> <<[name |-> <<"gone", ".docx">>, content |-> Unreadable]>>]

Archives == {ArchCorrupt, ArchMixed, ArchGone}

\* The paths the globs yield, in order: the k-th plain file and the k-th archive.
DocxPaths == <<"1.docx", "2.docx", "3.docx", "4.docx", "5.docx">>
ZipPaths  == <<"1.zip", "2.zip", "3.zip", "4.zip", "5.zip">>

RECURSIVE SeqsOfLen(_, _)
SeqsOfLen(S, n) ==
    IF n = 0 THEN {<<>>}
    ELSE {<<x>> \o q : x \in S, q \in SeqsOfLen(S, n - 1)}

\* The arguments of process_files (search_re, quiet, n_context_chars), the
\* files and archives the glob patterns match, and the build.
Worlds ==
    UNION { UNION { [docx : SeqsOfLen(FileContents, d),
                     zips : SeqsOfLen(Archives, z),
                     search_re : {<<Chr_a>>},
                     quiet : BOOLEAN,
                     context_len : {0, 1},
                     overflow_checks : BOOLEAN] : z \in 0..(MaxPaths - d) }
            : d \in 0..MaxPaths }

FileAt(w, fname) == w.docx[CHOOSE k \in 1..Len(w.docx) : DocxPaths[k] = fname]
ArchiveAt(w, zip_path) == w.zips[CHOOSE k \in 1..Len(w.zips) : ZipPaths[k] = zip_path]

\* Fnames::try_from: the paths a glob pattern matches.
docx_fnames(w) == [k \in 1..Len(w.docx) |-> DocxPaths[k]]
zip_fnames(w)  == [k \in 1..Len(w.zips) |-> ZipPaths[k]]

\* ------------------------------------------------------------------------
\* ziphandler.rs
\* ------------------------------------------------------------------------
RegularFile(fname) ==
    [kind |-> "file", fname |-> fname, archive_name |-> "", entry_name |-> <<>>]

ZipEntry(archive_name, entry_name) ==
    [kind |-> "zip", fname |-> "", archive_name |-> archive_name, entry_name |-> entry_name]

\* file_name.ends_with(suffix)
EndsWith(file_name, suffix) ==
    file_name # <<>> /\ file_name[Len(file_name)] = suffix

\* file_name.contains(piece)
Contains(file_name, piece) == \E k \in 1..Len(file_name) : file_name[k] = piece

\* Keeping every .docx member, also one below the junk directory.
KeepAnyDocx(file_name) == EndsWith(file_name, ".docx")

\* `file_name.ends_with(".docx") && !file_name.contains("__MACOSX")`
KeepEntry(file_name) ==
    EndsWith(file_name, ".docx") /\ ~Contains(file_name, "__MACOSX")

\* zip_to_zipentries: Err when the archive cannot be opened or read, else
\* the kept members in index order.
zip_to_zipentries(w, zip_path) ==
    LET archive == ArchiveAt(w, zip_path)
    IN  IF archive.corrupt
        THEN [ok |-> FALSE, entries |-> <<>>]
        ELSE LET kept == SelectSeq(archive.members, LAMBDA m : KeepEntry(m.name))
             IN  [ok |-> TRUE,
                  entries |-> [k \in 1..Len(kept) |-> ZipEntry(zip_path, kept[k].name)]]

\* ------------------------------------------------------------------------
\* reader.rs: ReadIntoBuf, parse_docx
\* ------------------------------------------------------------------------
\* The member name alone, without the archive.
get_entry_name(src) == IF src.kind = "file" THEN <<src.fname>> ELSE src.entry_name

\* ReadIntoBuf::get_fname: the path of a plain file, and
\* format!("File: {} in {}", entry_name, archive_name) for an archive member.
get_fname(src) ==
    IF src.kind = "file" THEN <<src.fname>>
    ELSE <<"File: ">> \o src.entry_name \o <<" in ", src.archive_name>>

ReadErr == [ok |-> FALSE, buf |-> Unreadable]

\* ReadIntoBuf::read_into_buf for RegularFile and for ZipEntry
read_into_buf(w, src) ==
    IF src.kind = "file"
    THEN LET c == FileAt(w, src.fname)
         IN  IF c.kind = "unreadable" THEN ReadErr ELSE [ok |-> TRUE, buf |-> c]
    ELSE LET archive == ArchiveAt(w, src.archive_name)
             named   == SelectSeq(archive.members, LAMBDA m : m.name = src.entry_name)
         IN  IF archive.corrupt \/ named = <<>> \/ named[1].content.kind = "unreadable"
             THEN ReadErr
             ELSE [ok |-> TRUE, buf |-> named[1].content]

\* Taking bytes that are no document for a document without runs.
parse_docx_swallow(w, src, search_re) ==
    LET r == read_into_buf(w, src)
    IN  IF ~r.ok THEN [ok |-> FALSE, err |-> "read", runs |-> <<>>]
        ELSE IF r.buf.kind # "docx" THEN [ok |-> TRUE, err |-> "", runs |-> <<>>]
        ELSE [ok |-> TRUE, err |-> "",
              runs |-> xtract_text_from_doctree(r.buf.root, search_re)]

\* parse_docx: `?` on read_into_buf, `?` on read_docx, then the extraction.
parse_docx(w, src, search_re) ==
    LET r == read_into_buf(w, src)
    IN  IF ~r.ok THEN [ok |-> FALSE, err |-> "read", runs |-> <<>>]
        ELSE IF r.buf.kind # "docx" THEN [ok |-> FALSE, err |-> "decode", runs |-> <<>>]
        ELSE [ok |-> TRUE, err |-> "",
              runs |-> xtract_text_from_doctree(r.buf.root, search_re)]

\* ------------------------------------------------------------------------
\* reader.rs: process_files and print_result
\* ------------------------------------------------------------------------
NoTriple == MatchTriple(<<>>, <<>>, <<>>)

\* A line on the terminal: src is the index in the work list of the source it
\* reports (0: written by process_files itself).
Line(src, kind, text, nums, triple) ==
    [src |-> src, kind |-> kind, text |-> text, nums |-> nums, triple |-> triple]

Tasks == 1..Len(file_surrogates)

NoResult == [ok |-> TRUE, err |-> "", runs |-> <<>>]

NewTask ==
    [pc |-> "map", file_name |-> <<>>, result |-> NoResult,
     run_index |-> 0, match_index |-> 0, mtriples |-> <<>>]

\* Between `output_mutex.lock()` and the drop of _output_guard.
InRegion(i) ==
    task[i].pc \in {"header", "error", "quiet", "segment", "triples", "footer", "unlock"}

\* process_files returned or unwound.
Terminated == main_pc = "end"

\* `Fnames::try_from(..)?` fails: the glob pattern is invalid.
GlobFails ==
    /\ mode = "proc"
    /\ main_pc = "start"
    /\ main_pc' = "end"
    /\ ret' = "glob_error"
    /\ UNCHANGED <<fnVars, world, zip_i, file_surrogates, task, mutex, out>>

\* Lines 141-157: the two globs, the "Found .. zip archives" line and one
\* RegularFile per plain file.
Discover ==
    /\ mode = "proc"
    /\ main_pc = "start"
    /\ out' = Append(out, Line(0, "found_zips", zip_fnames(world), <<>>, NoTriple))
    /\ file_surrogates' = [k \in 1..Len(world.docx) |-> RegularFile(docx_fnames(world)[k])]
    /\ zip_i' = 1
    /\ main_pc' = "list_zips"
    /\ UNCHANGED <<fnVars, world, ret, task, mutex>>

\* Lines 158-163, one iteration whose `zip_to_zipentries(zip_fname)?` is Ok.
ListZip ==
    /\ mode = "proc"
    /\ main_pc = "list_zips"
    /\ zip_i <= Len(world.zips)
    /\ LET r == zip_to_zipentries(world, zip_fnames(world)[zip_i])
       IN  /\ r.ok
           /\ file_surrogates' = file_surrogates \o r.entries
    /\ zip_i' = zip_i + 1
    /\ UNCHANGED <<fnVars, world, main_pc, ret, task, mutex, out>>

\* Lines 158-163, an iteration whose `zip_to_zipentries(zip_fname)?` is Err:
\* process_files returns the error.
ListZipFails ==
    /\ mode = "proc"
    /\ main_pc = "list_zips"
    /\ zip_i <= Len(world.zips)
    /\ ~zip_to_zipentries(world, zip_fnames(world)[zip_i]).ok
    /\ main_pc' = "end"
    /\ ret' = "zip_error"
    /\ UNCHANGED <<fnVars, world, zip_i, file_surrogates, task, mutex, out>>

\* Line 165: file_surrogates.par_iter() hands every element to the pool.
Dispatch ==
    /\ mode = "proc"
    /\ main_pc = "list_zips"
    /\ zip_i > Len(world.zips)
    /\ main_pc' = "dispatch"
    /\ task' = [i \in Tasks |-> NewTask]
    /\ UNCHANGED <<fnVars, world, ret, zip_i, file_surrogates, mutex, out>>

\* Lines 167-173, the map closure: parse_docx and the SearchResult.
MapParse(i) ==
    /\ main_pc = "dispatch"
    /\ task[i].pc = "map"
    /\ task' = [task EXCEPT ![i].pc = "lock",
                            ![i].file_name = get_fname(file_surrogates[i]),
                            ![i].result = parse_docx(world, file_surrogates[i],
                                                     world.search_re)]
    /\ UNCHANGED <<fnVars, world, main_pc, ret, zip_i, file_surrogates, mutex, out>>

\* Entering the region without looking at the holder.
MutexNeverHeld(holder) == TRUE

\* Mutex::lock blocks while another thread holds the mutex.
MutexFree(holder) == holder = 0

\* Line 225: output_mutex.lock().unwrap() on a mutex that is not poisoned.
LockAcquire(i) ==
    /\ main_pc = "dispatch"
    /\ task[i].pc = "lock"
    /\ MutexFree(mutex.holder)
    /\ ~mutex.poisoned
    /\ mutex' = [mutex EXCEPT !.holder = i]
    /\ task' = [task EXCEPT ![i].pc = "header"]
    /\ UNCHANGED <<fnVars, world, main_pc, ret, zip_i, file_surrogates, out>>

\* Line 225 on a poisoned mutex: lock() is Err, unwrap() panics and the guard
\* inside the error is dropped.
LockPoisoned(i) ==
    /\ main_pc = "dispatch"
    /\ task[i].pc = "lock"
    /\ MutexFree(mutex.holder)
    /\ mutex.poisoned
    /\ task' = [task EXCEPT ![i].pc = "panicked"]
    /\ UNCHANGED <<fnVars, world, main_pc, ret, zip_i, file_surrogates, mutex, out>>

\* Line 226: println!("Searched file--> {}\n", result.file_name)
PrintHeader(i) ==
    /\ main_pc = "dispatch"
    /\ task[i].pc = "header"
    /\ out' = Append(out, Line(i, "header", task[i].file_name, <<>>, NoTriple))
    /\ task' = [task EXCEPT ![i].pc =
                   IF ~task[i].result.ok THEN "error"
                   ELSE IF world.quiet THEN "quiet"
                   ELSE IF task[i].result.runs = <<>> THEN "footer"
                   ELSE "segment"]
    /\ UNCHANGED <<fnVars, world, main_pc, ret, zip_i, file_surrogates, mutex>>

\* Line 250: Err(e) => eprintln!("{:?}\n", e)
PrintError(i) ==
    /\ main_pc = "dispatch"
    /\ task[i].pc = "error"
    /\ out' = Append(out, Line(i, "error", <<task[i].result.err>>, <<>>, NoTriple))
    /\ task' = [task EXCEPT ![i].pc = "unlock"]
    /\ UNCHANGED <<fnVars, world, main_pc, ret, zip_i, file_surrogates, mutex>>

\* Lines 229-238: the quiet report, "Matched n runs" or "No matches found".
PrintQuiet(i) ==
    /\ main_pc = "dispatch"
    /\ task[i].pc = "quiet"
    /\ LET runs == task[i].result.runs
       IN  out' = Append(out,
                     IF runs # <<>>
                     THEN Line(i, "matched_runs", <<>>, <<Len(runs)>>, NoTriple)
                     ELSE Line(i, "no_matches", <<>>, <<>>, NoTriple))
    /\ task' = [task EXCEPT ![i].pc = "footer"]
    /\ UNCHANGED <<fnVars, world, main_pc, ret, zip_i, file_surrogates, mutex>>

\* Where the loops of lines 240-246 stand after the triples of the current run.
AfterRun(t) ==
    IF t.run_index + 1 < Len(t.result.runs)
    THEN [t EXCEPT !.pc = "segment", !.run_index = t.run_index + 1,
                   !.match_index = 0, !.mtriples = <<>>]
    ELSE [t EXCEPT !.pc = "footer", !.run_index = t.run_index + 1,
                   !.match_index = 0, !.mtriples = <<>>]

SegmentOf(i) ==
    segment_on_regex(task[i].result.runs[task[i].run_index + 1], world.search_re,
                     world.context_len, world.overflow_checks)

\* Line 241: matcher::segment_on_regex(run, re, n_context_chars) returns.
SegmentRun(i) ==
    /\ main_pc = "dispatch"
    /\ task[i].pc = "segment"
    /\ ~SegmentOf(i).panicked
    /\ task' = [task EXCEPT ![i] =
                   IF SegmentOf(i).triples = <<>>
                   THEN AfterRun(task[i])
                   ELSE [task[i] EXCEPT !.pc = "triples", !.match_index = 0,
                                        !.mtriples = SegmentOf(i).triples]]
    /\ UNCHANGED <<fnVars, world, main_pc, ret, zip_i, file_surrogates, mutex, out>>

\* Line 241: segment_on_regex panics; unwinding drops _output_guard, which
\* unlocks the mutex and poisons it.
SegmentPanics(i) ==
    /\ main_pc = "dispatch"
    /\ task[i].pc = "segment"
    /\ SegmentOf(i).panicked
    /\ task' = [task EXCEPT ![i].pc = "panicked"]
    /\ mutex' = [holder |-> 0, poisoned |-> TRUE]
    /\ UNCHANGED <<fnVars, world, main_pc, ret, zip_i, file_surrogates, out>>

\* Lines 242-245: one println!("  {}-> {}\n", prompt, mtriple).
PrintTriple(i) ==
    /\ main_pc = "dispatch"
    /\ task[i].pc = "triples"
    /\ out' = Append(out, Line(i, "match", <<>>,
                               <<task[i].run_index + 1, task[i].match_index + 1>>,
                               task[i].mtriples[task[i].match_index + 1]))
    /\ task' = [task EXCEPT ![i] =
                   IF task[i].match_index + 1 < Len(task[i].mtriples)
                   THEN [task[i] EXCEPT !.match_index = task[i].match_index + 1]
                   ELSE AfterRun(task[i])]
    /\ UNCHANGED <<fnVars, world, main_pc, ret, zip_i, file_surrogates, mutex>>

\* Line 248: println!("===\n")
PrintFooter(i) ==
    /\ main_pc = "dispatch"
    /\ task[i].pc = "footer"
    /\ out' = Append(out, Line(i, "footer", <<>>, <<>>, NoTriple))
    /\ task' = [task EXCEPT ![i].pc = "unlock"]
    /\ UNCHANGED <<fnVars, world, main_pc, ret, zip_i, file_surrogates, mutex>>

\* Line 252: print_result returns and _output_guard is dropped.
Unlock(i) ==
    /\ main_pc = "dispatch"
    /\ task[i].pc = "unlock"
    /\ mutex' = [mutex EXCEPT !.holder = 0]
    /\ task' = [task EXCEPT ![i].pc = "done"]
    /\ UNCHANGED <<fnVars, world, main_pc, ret, zip_i, file_surrogates, out>>

\* for_each returns once every task has ended without a panic.
Join ==
    /\ mode = "proc"
    /\ main_pc = "dispatch"
    /\ \A i \in Tasks : task[i].pc = "done"
    /\ main_pc' = "summary"
    /\ UNCHANGED <<fnVars, world, ret, zip_i, file_surrogates, task, mutex, out>>

\* Every task has ended and one of them panicked: the pool resumes the
\* panic in process_files, which unwinds.
JoinPanics ==
    /\ mode = "proc"
    /\ main_pc = "dispatch"
    /\ \A i \in Tasks : task[i].pc \in {"done", "panicked"}
    /\ \E i \in Tasks : task[i].pc = "panicked"
    /\ main_pc' = "end"
    /\ ret' = "panic"
    /\ UNCHANGED <<fnVars, world, zip_i, file_surrogates, task, mutex, out>>

\* Lines 183-200: the aggregate counts, the parameters, the searched paths.
Summary ==
    /\ mode = "proc"
    /\ main_pc = "summary"
    /\ LET nfiles == Len(docx_fnames(world))
           nzips  == Len(zip_fnames(world))
       IN  out' = out
                \o <<Line(0, "counts",
                          <<IF nfiles = 1 THEN "file" ELSE "files",
                            IF nzips = 1 THEN "zip archive" ELSE "zip archives">>,
                          <<nfiles, nzips>>, NoTriple),
                     Line(0, "parameters", <<>>, <<>>, NoTriple)>>
                \o [k \in 1..nfiles |->
                       Line(0, "searched_docx", <<docx_fnames(world)[k]>>, <<>>, NoTriple)]
                \o [k \in 1..nzips |->
                       Line(0, "searched_zip", <<zip_fnames(world)[k]>>, <<>>, NoTriple)]
    /\ main_pc' = "end"
    /\ ret' = "ok"
    /\ UNCHANGED <<fnVars, world, zip_i, file_surrogates, task, mutex>>

\* ------------------------------------------------------------------------
\* Specifications
\* ------------------------------------------------------------------------
NoWorld ==
    [docx |-> <<>>, zips |-> <<>>, search_re |-> <<>>, quiet |-> FALSE,
     context_len |-> 0, overflow_checks |-> FALSE]

\* process_files is not running.
ProcIdle ==
    /\ world = NoWorld
    /\ main_pc = "idle"
    /\ ret = ""
    /\ zip_i = 0
    /\ file_surrogates = <<>>
    /\ task = <<>>
    /\ mutex = [holder |-> 0, poisoned |-> FALSE]
    /\ out = <<>>

\* zip_to_zipentries is not under study.
ZipIdle ==
    /\ zip_in = NoZipInput
    /\ zip_out = NoZipOutput

\* The truncation macros are not under study.
TruncIdle ==
    /\ trunc_in = NoTruncInput
    /\ trunc_out = NoTruncOutput

\* No pure function is under study.
FnIdle ==
    /\ fn_pc = "idle"
    /\ seg_in = NoSegInput
    /\ seg_out = NoSegOutput
    /\ tree_in = NoTreeInput
    /\ tree_out = <<>>
    /\ ZipIdle
    /\ TruncIdle

\* ------------------------------------------------------------------------
\* The segmenter on its own
\* ------------------------------------------------------------------------
InitSeg ==
    /\ mode = "seg"
    /\ fn_pc = "call"
    /\ seg_in \in SegInputs
    /\ seg_out = NoSegOutput
    /\ tree_in = NoTreeInput
    /\ tree_out = <<>>
    /\ ZipIdle
    /\ TruncIdle
    /\ ProcIdle

CallSegment ==
    /\ mode = "seg"
    /\ fn_pc = "call"
    /\ fn_pc' = "done"
    /\ seg_out' = segment_on_regex(seg_in.s, seg_in.re, seg_in.context_len,
                                   seg_in.overflow_checks)
    /\ UNCHANGED <<mode, seg_in, tree_in, tree_out, zip_in, zip_out,
                   trunc_in, trunc_out, procVars>>

NextSeg == CallSegment

SpecSeg == InitSeg /\ [][NextSeg]_vars

\* ------------------------------------------------------------------------
\* The extractor on its own
\* ------------------------------------------------------------------------
TreePatterns == {<<Chr_a>>, <<Chr_b>>}

InitTree ==
    /\ mode = "tree"
    /\ fn_pc = "call"
    /\ tree_in \in [root : Trees, search_re : TreePatterns]
    /\ tree_out = <<>>
    /\ seg_in = NoSegInput
    /\ seg_out = NoSegOutput
    /\ ZipIdle
    /\ TruncIdle
    /\ ProcIdle

CallXtract ==
    /\ mode = "tree"
    /\ fn_pc = "call"
    /\ fn_pc' = "done"
    /\ tree_out' = xtract_text_from_doctree(tree_in.root, tree_in.search_re)
    /\ UNCHANGED <<mode, seg_in, seg_out, tree_in, zip_in, zip_out,
                   trunc_in, trunc_out, procVars>>

NextTree == CallXtract

SpecTree == InitTree /\ [][NextTree]_vars

\* ------------------------------------------------------------------------
\* The archive lister on its own
\* ------------------------------------------------------------------------
\* Member names: documents, another suffix, a document below the junk
\* directory, and a name that holds ".docx" but does not end with it.
MemberNames ==
    { <<"test1", ".docx">>, <<"test2", ".txt">>, <<"test3", ".docx">>,
      <<"__MACOSX", "/", "test1", ".docx">>, <<"test1", ".docx", ".bak">> }

\* The archives at zip_path: not a zip archive, or up to MaxMembers members.
ZipInputs ==
    { [archive |-> a, zip_path |-> ZipPaths[1]] :
        a \in {ArchCorrupt} \cup
              UNION { { [corrupt |-> FALSE,
                         members |-> [k \in 1..n |-> [name |-> nm[k], content |-> Garbage]]] :
                        nm \in [1..n -> MemberNames] } : n \in 0..MaxMembers } }

\* The file system that holds just the archive of zip_in.
ZipWorld(zin) == [NoWorld EXCEPT !.zips = <<zin.archive>>]

InitZip ==
    /\ mode = "zip"
    /\ fn_pc = "call"
    /\ zip_in \in ZipInputs
    /\ zip_out = NoZipOutput
    /\ seg_in = NoSegInput
    /\ seg_out = NoSegOutput
    /\ tree_in = NoTreeInput
    /\ tree_out = <<>>
    /\ TruncIdle
    /\ ProcIdle

CallZipList ==
    /\ mode = "zip"
    /\ fn_pc = "call"
    /\ fn_pc' = "done"
    /\ zip_out' = zip_to_zipentries(ZipWorld(zip_in), zip_in.zip_path)
    /\ UNCHANGED <<mode, seg_in, seg_out, tree_in, tree_out, zip_in,
                   trunc_in, trunc_out, procVars>>

NextZip == CallZipList

SpecZip == InitZip /\ [][NextZip]_vars

\* ------------------------------------------------------------------------
\* The truncation macros on their own
\* ------------------------------------------------------------------------
\* Every string of the model with every count from 0 to one more than the
\* longest string has characters, in both builds.
TruncInputs == [s : Runs, n : 0..(MaxLen + 1), overflow_checks : BOOLEAN]

InitTrunc ==
    /\ mode = "trunc"
    /\ fn_pc = "call"
    /\ trunc_in \in TruncInputs
    /\ trunc_out = NoTruncOutput
    /\ seg_in = NoSegInput
    /\ seg_out = NoSegOutput
    /\ tree_in = NoTreeInput
    /\ tree_out = <<>>
    /\ ZipIdle
    /\ ProcIdle

\* first_n_chars!(s, n) and last_n_chars!(s, n); the latter panics when
\* `n - 1` overflows in a build with overflow checks.
CallTruncate ==
    /\ mode = "trunc"
    /\ fn_pc = "call"
    /\ fn_pc' = "done"
    /\ trunc_out' =
           LET panics == SubOneOverflows(trunc_in.n, trunc_in.overflow_checks)
           IN  [first |-> first_n_chars(trunc_in.s, trunc_in.n),
                last_panicked |-> panics,
                last |-> IF panics THEN <<>> ELSE last_n_chars(trunc_in.s, trunc_in.n)]
    /\ UNCHANGED <<mode, seg_in, seg_out, tree_in, tree_out, zip_in, zip_out,
                   trunc_in, procVars>>

NextTrunc == CallTruncate

SpecTrunc == InitTrunc /\ [][NextTrunc]_vars

\* ------------------------------------------------------------------------
\* process_files with its worker tasks
\* ------------------------------------------------------------------------
InitProc ==
    /\ mode = "proc"
    /\ FnIdle
    /\ world \in Worlds
    /\ main_pc = "start"
    /\ ret = ""
    /\ zip_i = 0
    /\ file_surrogates = <<>>
    /\ task = <<>>
    /\ mutex = [holder |-> 0, poisoned |-> FALSE]
    /\ out = <<>>

NextProc ==
    \/ GlobFails
    \/ Discover
    \/ ListZip
    \/ ListZipFails
    \/ Dispatch
    \/ \E i \in Tasks : MapParse(i)
    \/ \E i \in Tasks : LockAcquire(i)
    \/ \E i \in Tasks : LockPoisoned(i)
    \/ \E i \in Tasks : PrintHeader(i)
    \/ \E i \in Tasks : PrintError(i)
    \/ \E i \in Tasks : PrintQuiet(i)
    \/ \E i \in Tasks : SegmentRun(i)
    \/ \E i \in Tasks : SegmentPanics(i)
    \/ \E i \in Tasks : PrintTriple(i)
    \/ \E i \in Tasks : PrintFooter(i)
    \/ \E i \in Tasks : Unlock(i)
    \/ Join
    \/ JoinPanics
    \/ Summary

SpecProc == InitProc /\ [][NextProc]_vars

\* ------------------------------------------------------------------------
\* Reference notions the claims about the extractor are stated with
\* ------------------------------------------------------------------------
\* Node i can be reached from the root's children through "children" arrays.
RECURSIVE Reachable(_, _)
Reachable(tree, i) ==
    \/ tree.parent[i] = 0
    \/ /\ HasChildrenArray(tree, tree.parent[i])
       /\ tree.node[tree.parent[i]].type # "text"
       /\ Reachable(tree, tree.parent[i])

\* The reachable text leaves the pattern matches.
MatchingLeaves(tree, search_re) ==
    {i \in 1..tree.n : /\ Reachable(tree, i)
                       /\ tree.node[i].type = "text"
                       /\ is_match(search_re, tree.node[i].text)}

\* How often x occurs in the sequence q.
Occurs(q, x) == Cardinality({k \in 1..Len(q) : q[k] = x})

\* The children of the nodes of a sequence, in order.
RECURSIVE ChildrenOfAll(_, _)
ChildrenOfAll(tree, nodes) ==
    IF nodes = <<>> THEN <<>>
    ELSE Children(tree, Head(nodes)) \o ChildrenOfAll(tree, Tail(nodes))

\* The nodes at depth d (the root's children are at depth 1), left to right.
RECURSIVE LevelNodes(_, _)
LevelNodes(tree, d) ==
    IF d = 1 THEN Children(tree, 0)
    ELSE ChildrenOfAll(tree, LevelNodes(tree, d - 1))

\* The level-order traversal: level 1, then level 2, ...
RECURSIVE LevelOrderUpTo(_, _)
LevelOrderUpTo(tree, d) ==
    IF d = 0 THEN <<>>
    ELSE LevelOrderUpTo(tree, d - 1) \o LevelNodes(tree, d)

LevelOrder(tree) == LevelOrderUpTo(tree, tree.n)

\* The depth-first (document reading) order of the subtrees of a node sequence.
RECURSIVE Preorder(_, _)
Preorder(tree, nodes) ==
    IF nodes = <<>> THEN <<>>
    ELSE <<Head(nodes)>> \o Preorder(tree, Children(tree, Head(nodes)))
                         \o Preorder(tree, Tail(nodes))

\* The texts of the matching text leaves of a node sequence, in its order.
RunsAlong(tree, search_re, nodes) ==
    LET sel == SelectSeq(nodes, LAMBDA i : i \in MatchingLeaves(tree, search_re))
    IN  [k \in 1..Len(sel) |-> tree.node[sel[k]].text]

\* ------------------------------------------------------------------------
\* Claims about xtract_text_from_doctree (checked under SpecTree)
\* ------------------------------------------------------------------------
XtractDone == mode = "tree" /\ fn_pc = "done"

\* C1: xtract_text_from_doctree returns exactly the texts of the reachable
\* text leaves that the pattern matches: every returned Run is matched by the
\* pattern, every text is returned as often as there are matching leaves that
\* carry it (each leaf once, none missing, nothing from a non-text node), and
\* a tree without a matching leaf yields the empty list.
C1_ExactlyMatchingLeaves ==
    XtractDone =>
        LET tree   == tree_in.root
            re     == tree_in.search_re
            leaves == MatchingLeaves(tree, re)
        IN  /\ \A k \in 1..Len(tree_out) : is_match(re, tree_out[k])
            /\ Len(tree_out) = Cardinality(leaves)
            /\ \A x \in {nd.text : nd \in NodeShapes} :
                   Occurs(tree_out, x) =
                       Cardinality({i \in leaves : tree.node[i].text = x})
            /\ leaves = {} => tree_out = <<>>

\* C1 witness: a tree with a matching text leaf below an interior node, a text
\* leaf the pattern does not match and a matching text in a non-text node;
\* the call returned the one matching text.
C1_Witness ==
    /\ XtractDone
    /\ LET tree == tree_in.root
       IN  /\ \E i \in 1..tree.n : /\ i \in MatchingLeaves(tree, tree_in.search_re)
                                   /\ tree.parent[i] # 0
           /\ \E i \in 1..tree.n : /\ tree.node[i].type = "text"
                                   /\ ~is_match(tree_in.search_re, tree.node[i].text)
           /\ \E i \in 1..tree.n : /\ tree.node[i].type = "deleteText"
                                   /\ is_match(tree_in.search_re, tree.node[i].text)
    /\ Len(tree_out) = 1

\* C2: the Runs come in breadth-first order: the returned sequence is the one
\* the level-order traversal gives (so a matching leaf at a shallower level
\* precedes every matching leaf at a deeper level), and wherever the
\* depth-first order differs from it, the result is not the depth-first one.
C2_BreadthFirstOrder ==
    XtractDone =>
        LET tree == tree_in.root
            re   == tree_in.search_re
            bfs  == RunsAlong(tree, re, LevelOrder(tree))
            dfs  == RunsAlong(tree, re, Preorder(tree, Children(tree, 0)))
        IN  /\ tree_out = bfs
            /\ dfs # bfs => tree_out # dfs

\* C2 witness: an interior node A (node 1) whose text children are A1 = "ab"
\* and a text the pattern does not match, and after A a matching text sibling
\* "a" at the top level: the shallow leaf is returned first and A1 second,
\* which is not the reading order A1, leaf.
C2_Witness ==
    /\ XtractDone
    /\ LET tree == tree_in.root
       IN  /\ tree.n = 4
           /\ tree.parent = <<0, 0, 1, 1>>
           /\ tree.node[1].type = "run"
           /\ tree.node[2] = [type |-> "text", text |-> Txt_a]
           /\ tree.node[3] = [type |-> "text", text |-> Txt_ab]
           /\ tree.node[4] = [type |-> "text", text |-> Txt_b]
    /\ tree_in.search_re = <<Chr_a>>
    /\ tree_out = <<Txt_a, Txt_ab>>

\* ------------------------------------------------------------------------
\* Reference notions the claims about the segmenter are stated with
\* ------------------------------------------------------------------------
\* The text of an occurrence.
OccText(s, m) == Slice(s, m.start, m.end)

\* The gap texts around the occurrences ms of s: gap 0 is the text before the
\* first occurrence, gap i the text between occurrences i and i + 1, and gap
\* Len(ms) the text after the last one.
Gap(s, ms, i) ==
    Slice(s,
          IF i = 0 THEN 0 ELSE ms[i].end,
          IF i = Len(ms) THEN Len(s) ELSE ms[i + 1].start)

\* s[i..j] for character boundaries i <= j of s.
IsBoundarySlice(s, x) ==
    \E i \in 0..Len(s) : \E j \in i..Len(s) :
        /\ IsCharBoundary(s, i)
        /\ IsCharBoundary(s, j)
        /\ Slice(s, i, j) = x

\* ------------------------------------------------------------------------
\* Claims about segment_on_regex (checked under SpecSeg)
\* ------------------------------------------------------------------------
SegDone == mode = "seg" /\ fn_pc = "done"

Str_HelloWorld == <<72, 101, 108, 108, 111, 44, 32, 119, 111, 114, 108, 100, 33>>
Str_ThisThat == <<84, 104, 105, 115, 44, 32, 116, 104, 97, 116, 44, 32, 97, 110, 100, 32, 116, 104, 101, 32, 111, 116, 104, 101, 114, 32, 116, 104, 105, 110, 103>>
Re_Hello == <<<<72, 101, 108, 108, 111>>, <<104, 101, 108, 108, 111>>>>
Re_Th == <<<<84, 104>>, <<116, 104>>>>

\* C3: with context_len at least the number of characters of the run, the
\* result for occurrences m1..mk is (g0, m1, g1), (g1, m2, g2), ...,
\* (g(k-1), mk, gk) with the whole gap texts; "Hello, world!" with [Hh]ello
\* gives ("", "Hello", ", world!"), and "This, that, and the other thing"
\* with [Tt]h gives five triples, the second ("is, ", "th", "at, and ").
C3_WholeGapTriples ==
    /\ segment_on_regex(Str_HelloWorld, Re_Hello, 1000, TRUE).triples =
           <<MatchTriple(<<>>, <<72, 101, 108, 108, 111>>,
                         <<44, 32, 119, 111, 114, 108, 100, 33>>)>>
    /\ LET r == segment_on_regex(Str_ThisThat, Re_Th, 1000, TRUE).triples
       IN  /\ Len(r) = 5
           /\ r[2] = MatchTriple(<<105, 115, 44, 32>>, <<116, 104>>,
                                 <<97, 116, 44, 32, 97, 110, 100, 32>>)
    /\ (SegDone /\ seg_in.context_len >= NumChars(seg_in.s)) =>
           LET s  == seg_in.s
               ms == find_iter(seg_in.re, s)
           IN  /\ ~seg_out.panicked
               /\ seg_out.triples =
                      [i \in 1..Len(ms) |->
                          MatchTriple(Gap(s, ms, i - 1), OccText(s, ms[i]), Gap(s, ms, i))]

\* C4: for every run, pattern and context_len the result has exactly one
\* MatchTriple per occurrence of the pattern in the run, and it is the empty
\* sequence when the pattern has no occurrence.
C4_OneTriplePerOccurrence ==
    SegDone =>
        LET ms == find_iter(seg_in.re, seg_in.s)
        IN  /\ ~seg_out.panicked
            /\ Len(seg_out.triples) = Len(ms)
            /\ ms = <<>> => seg_out.triples = <<>>

\* C5: in every returned MatchTriple the matched field is non-empty, for
\* every run and every pattern, also one that can match the empty string.
C5_MatchedNonEmpty ==
    SegDone => \A i \in 1..Len(seg_out.triples) : seg_out.triples[i].matched # <<>>

\* C6: for every context_len, 0 included, every preamble and every postamble
\* has at most context_len characters and is a piece of the run cut at
\* character boundaries.
C6_ContextBounded ==
    SegDone =>
        /\ ~seg_out.panicked
        /\ \A i \in 1..Len(seg_out.triples) :
               LET tr == seg_out.triples[i]
               IN  /\ NumChars(tr.preamble) <= seg_in.context_len
                   /\ NumChars(tr.postamble) <= seg_in.context_len
                   /\ IsBoundarySlice(seg_in.s, tr.preamble)
                   /\ IsBoundarySlice(seg_in.s, tr.postamble)

\* ------------------------------------------------------------------------
\* Reference notions the claims about process_files are stated with
\* ------------------------------------------------------------------------
\* The tasks of the dispatch (none before it).
Started == DOMAIN task

\* The positions of `out` whose line reports source i.
LinesOf(i) == {p \in 1..Len(out) : out[p].src = i}

\* Source i cannot be read or its bytes are no document.
SourceFails(i) ==
    LET r == read_into_buf(world, file_surrogates[i])
    IN  ~r.ok \/ r.buf.kind # "docx"

\* The report of source i is complete in `out`: its header with its
\* identifier, then its error directly after the header or, for a run list,
\* its closing line.
Reported(i) ==
    \E p \in LinesOf(i) :
        /\ out[p].kind = "header"
        /\ out[p].text = get_fname(file_surrogates[i])
        /\ IF SourceFails(i)
           THEN p < Len(out) /\ out[p + 1].src = i /\ out[p + 1].kind = "error"
           ELSE \E q \in LinesOf(i) : q > p /\ out[q].kind = "footer"

\* The k-th plain file is in the work list, and so is every kept member of
\* the k-th archive.
FileListed(k) ==
    \E i \in 1..Len(file_surrogates) : file_surrogates[i] = RegularFile(DocxPaths[k])

MembersListed(k) ==
    \A m \in 1..Len(world.zips[k].members) :
        KeepEntry(world.zips[k].members[m].name) =>
            \E i \in 1..Len(file_surrogates) :
                file_surrogates[i] = ZipEntry(ZipPaths[k], world.zips[k].members[m].name)

\* ------------------------------------------------------------------------
\* Claims about process_files and print_result (checked under SpecProc)
\* ------------------------------------------------------------------------
\* C7: the report blocks of two sources are never interleaved: at most one
\* task is between the lock and the drop of the guard, it is the holder of
\* the mutex, the lines of a source are contiguous in the output, and a block
\* starts with the header of its source and holds no second header.
C7_BlocksNotInterleaved ==
    /\ Cardinality({i \in Started : InRegion(i)}) <= 1
    /\ \A i \in Started : InRegion(i) => mutex.holder = i
    /\ \A p \in 1..Len(out) : \A r \in p..Len(out) :
           (out[p].src # 0 /\ out[p].src = out[r].src) =>
               \A q \in p..r : out[q].src = out[p].src
    /\ \A p \in 1..Len(out) :
           out[p].src # 0 =>
               (out[p].kind = "header" <=> (p = 1 \/ out[p - 1].src # out[p].src))

\* C7 witness: one task is inside the region with its header and a match
\* line written, a second task waits for the mutex, and the complete block of
\* a third source is already on the terminal.
C7_Witness ==
    \E i \in Started : \E j \in Started : \E k \in Started :
        /\ i # j /\ j # k /\ i # k
        /\ task[i].pc = "triples"
        /\ \E p \in LinesOf(i) : out[p].kind = "match"
        /\ task[j].pc = "lock"
        /\ task[k].pc = "done"
        /\ \E p \in LinesOf(k) : out[p].kind = "footer"

\* C8: a source whose read or decoding fails gets an error result (never a
\* run list), the error is reported under the identifier of that source, and
\* every other source of the work list is still processed and reported with
\* its own result: the dispatch is not aborted.
C8_FailureIsolated ==
    /\ \A i \in Started :
           (task[i].pc # "map" /\ SourceFails(i)) =>
               (~task[i].result.ok /\ task[i].result.runs = <<>>)
    /\ (Terminated /\ \E i \in Started : SourceFails(i)) =>
           /\ ret = "ok"
           /\ \A j \in Started : Reported(j)

\* C9: when a discovered archive is corrupt, only its listing fails: every
\* plain file and every kept member of every other archive is in the work
\* list and has been searched and reported when process_files ends.
C9_ListingIndependent ==
    (Terminated /\ ret # "glob_error"
                /\ \E k \in 1..Len(world.zips) : world.zips[k].corrupt) =>
        /\ \A k \in 1..Len(world.docx) : FileListed(k)
        /\ \A k \in 1..Len(world.zips) : ~world.zips[k].corrupt => MembersListed(k)
        /\ Started = 1..Len(file_surrogates)
        /\ \A i \in Started : Reported(i)

\* C10: with a valid pattern process_files runs to completion and prints the
\* aggregate counts (plain files searched, archives searched), whatever read,
\* archive or decode failures occur.
C10_AlwaysPrintsCounts ==
    (Terminated /\ ret # "glob_error") =>
        /\ ret = "ok"
        /\ \E p \in 1..Len(out) :
               /\ out[p].kind = "counts"
               /\ out[p].nums = <<Len(world.docx), Len(world.zips)>>

\* The header lines of source i on the terminal.
HeadersOf(i) == {p \in LinesOf(i) : out[p].kind = "header"}

\* The task that holds the mutex is inside the region, where every step it
\* takes needs no other task.
HolderRuns == mutex.holder = 0 \/ (mutex.holder \in Started /\ InRegion(mutex.holder))

\* C11: every source of the work list gets one SearchResult and one report:
\* no source is ever reported twice, a task that waits for the output guard
\* waits for a task that is running inside the region (no deadlock), and when
\* process_files has ended after the dispatch every source of the work list
\* has run to its end and its report is on the terminal exactly once.
C11_ReportedExactlyOnce ==
    /\ \A i \in Started : Cardinality(HeadersOf(i)) <= 1
    /\ \A i \in Started : task[i].pc = "lock" => HolderRuns
    /\ (Terminated /\ ret \in {"ok", "panic"}) =>
           /\ Started = 1..Len(file_surrogates)
           /\ \A i \in Started :
                  /\ task[i].pc = "done"
                  /\ Cardinality(HeadersOf(i)) = 1
                  /\ Reported(i)

\* ------------------------------------------------------------------------
\* Claims about zip_to_zipentries (checked under SpecZip)
\* ------------------------------------------------------------------------
ZipDone == mode = "zip" /\ fn_pc = "done"

\* The name ends with the suffix .docx and holds no junk-directory marker.
WantedMember(name) ==
    /\ Len(name) >= 1
    /\ name[Len(name)] = ".docx"
    /\ \A k \in 1..Len(name) : name[k] # "__MACOSX"

\* The archive of test_zip_to_zipentries: test1.docx, test2.txt, test3.docx.
TestArchive ==
    [corrupt |-> FALSE,
     members |-> <<[name |-> <<"test1", ".docx">>, content |-> Garbage],
                   [name |-> <<"test2", ".txt">>, content |-> Garbage],
                   [name |-> <<"test3", ".docx">>, content |-> Garbage]>>]

\* C12: zip_to_zipentries returns exactly the members whose name ends with
\* .docx and does not contain __MACOSX, each once, in archive index order and
\* each with the path of the archive; the three-member archive of the test
\* (two documents and a .txt) yields its two documents in order.
C12_ListsWantedMembers ==
    /\ LET r == zip_to_zipentries([NoWorld EXCEPT !.zips = <<TestArchive>>], ZipPaths[1])
       IN  /\ r.ok
           /\ Len(r.entries) = 2
           /\ r.entries[1].entry_name = <<"test1", ".docx">>
           /\ r.entries[2].entry_name = <<"test3", ".docx">>
    /\ (ZipDone /\ ~zip_in.archive.corrupt) =>
           LET members == zip_in.archive.members
               wanted  == SortedSeq({k \in 1..Len(members) : WantedMember(members[k].name)})
           IN  /\ zip_out.ok
               /\ Len(zip_out.entries) = Len(wanted)
               /\ \A j \in 1..Len(wanted) :
                      /\ zip_out.entries[j].kind = "zip"
                      /\ zip_out.entries[j].entry_name = members[wanted[j]].name
                      /\ zip_out.entries[j].archive_name = zip_in.zip_path

\* C12 witness: an archive with a document, a document below the junk
\* directory and a second document was listed: the two documents, in order.
C12_Witness ==
    /\ ZipDone
    /\ Len(zip_in.archive.members) = 3
    /\ zip_in.archive.members[1].name = <<"test3", ".docx">>
    /\ zip_in.archive.members[2].name = <<"__MACOSX", "/", "test1", ".docx">>
    /\ zip_in.archive.members[3].name = <<"test1", ".docx">>
    /\ zip_out.ok
    /\ Len(zip_out.entries) = 2
    /\ zip_out.entries[1].entry_name = <<"test3", ".docx">>
    /\ zip_out.entries[2].entry_name = <<"test1", ".docx">>

\* ------------------------------------------------------------------------
\* Claims about the identifier of a source (checked under SpecProc)
\* ------------------------------------------------------------------------
\* The identifier of a source, with `label` in front of a member name.
Identifier(src, label) ==
    IF src.kind = "zip"
    THEN <<label>> \o src.entry_name \o <<" in ", src.archive_name>>
    ELSE <<src.fname>>

\* Every SearchResult and every header line carries Identifier(.., label).
IdentifiedBy(label) ==
    /\ \A i \in Started :
           task[i].pc # "map" => task[i].file_name = Identifier(file_surrogates[i], label)
    /\ \A p \in 1..Len(out) :
           out[p].kind = "header" =>
               out[p].text = Identifier(file_surrogates[out[p].src], label)

\* C13 as stated: the identifier of an archive member is
\* "member <name> in <archive>", that of a plain file is its path.
C13_MemberIdentifier == IdentifiedBy("member ")

\* C13 as amended: the identifier of an archive member is
\* "File: <name> in <archive>" (test_zip_entry_name: "File: test.docx in
\* test.zip"), that of a plain file is its path.
C13_FileIdentifier ==
    /\ get_fname(ZipEntry("test.zip", <<"test", ".docx">>)) =
           <<"File: ", "test", ".docx", " in ", "test.zip">>
    /\ IdentifiedBy("File: ")

\* C13 witness: the headers of an archive member and of a plain file are on
\* the terminal.
C13_Witness ==
    \E i \in Started : \E j \in Started :
        /\ file_surrogates[i].kind = "zip"
        /\ file_surrogates[j].kind = "file"
        /\ HeadersOf(i) # {}
        /\ HeadersOf(j) # {}

\* ------------------------------------------------------------------------
\* More claims about segment_on_regex (checked under SpecSeg)
\* ------------------------------------------------------------------------
\* C15: the matched field of the i-th returned triple is the complete text
\* of the i-th occurrence of the pattern in the run, whatever context_len is:
\* never truncated, never the text of a gap.
C15_MatchedIsOccurrence ==
    SegDone =>
        LET ms == find_iter(seg_in.re, seg_in.s)
        IN  \A i \in 1..Len(seg_out.triples) :
                /\ i <= Len(ms)
                /\ seg_out.triples[i].matched = OccText(seg_in.s, ms[i])

\* The first n characters and the last n characters of x, as the claims
\* mean them (n = 0: nothing).
FirstChars(x, n) ==
    CHOOSE y \in {Slice(x, 0, j) : j \in {b \in 0..Len(x) : IsCharBoundary(x, b)}} :
        NumChars(y) = (IF n < NumChars(x) THEN n ELSE NumChars(x))

LastChars(x, n) ==
    CHOOSE y \in {Slice(x, j, Len(x)) : j \in {b \in 0..Len(x) : IsCharBoundary(x, b)}} :
        NumChars(y) = (IF n < NumChars(x) THEN n ELSE NumChars(x))

\* C16: for consecutive occurrences i and i + 1 the postamble of triple i is
\* the first context_len characters and the preamble of triple i + 1 the last
\* context_len characters of the gap between them; a gap of at most
\* context_len characters is both, whole.
C16_GapSharedByNeighbours ==
    SegDone =>
        LET s  == seg_in.s
            ms == find_iter(seg_in.re, s)
            n  == seg_in.context_len
        IN  \A i \in 1..(Len(ms) - 1) :
                LET gap == Gap(s, ms, i)
                IN  /\ ~seg_out.panicked
                    /\ i + 1 <= Len(seg_out.triples)
                    /\ seg_out.triples[i].postamble = FirstChars(gap, n)
                    /\ seg_out.triples[i + 1].preamble = LastChars(gap, n)
                    /\ NumChars(gap) <= n =>
                           /\ seg_out.triples[i].postamble = gap
                           /\ seg_out.triples[i + 1].preamble = gap

\* The flat segment list segment_on_regex built before grouping it.
SegmentsOf(sin) ==
    LET ms   == find_iter(sin.re, sin.s)
        loop == SegLoop(sin.s, ms, 1, <<>>, 0, 0, sin.context_len, sin.overflow_checks)
    IN  PushTail(sin.s, ms, loop.segments, loop.start, sin.context_len)

\* C17: the postamble of the last triple is the first context_len characters
\* of the text after the final occurrence, and it is empty exactly when no
\* text remains there; of the groups of three of the segment list only the
\* last can lack an element, and it lacks at most its postamble.
C17_TrailingPostamble ==
    (SegDone /\ ~seg_out.panicked) =>
        LET s      == seg_in.s
            ms     == find_iter(seg_in.re, s)
            chunks == Chunks3(SegmentsOf(seg_in))
            k      == Len(seg_out.triples)
        IN  /\ \A c \in 1..Len(chunks) :
                   /\ Len(chunks[c]) >= 2
                   /\ c < Len(chunks) => Len(chunks[c]) = 3
            /\ k >= 1 =>
                   /\ ms # <<>>
                   /\ seg_out.triples[k].postamble =
                          FirstChars(Gap(s, ms, Len(ms)), seg_in.context_len)
                   /\ seg_out.triples[k].postamble = <<>> <=> Gap(s, ms, Len(ms)) = <<>>

\* ------------------------------------------------------------------------
\* Claims about what a task does inside and outside the region (SpecProc)
\* ------------------------------------------------------------------------
\* C18 as stated: the runs and their MatchTriples are staged before the
\* output guard is acquired, so the task that holds the mutex never is at a
\* call of segment_on_regex.
C18_AllStagedBeforeLock ==
    \A i \in Started : mutex.holder = i => task[i].pc # "segment"

\* The SearchResult of source i as reading, decoding and extraction give it.
StagedResult(i) ==
    /\ task[i].file_name = get_fname(file_surrogates[i])
    /\ task[i].result.ok = ~SourceFails(i)
    /\ ~task[i].result.ok => task[i].result.runs = <<>>
    /\ task[i].result.ok =>
           LET root == read_into_buf(world, file_surrogates[i]).buf.root
           IN  task[i].result.runs =
                   RunsAlong(root, world.search_re, LevelOrder(root))

\* C18 as amended: the SearchResult of a source (its identifier and its
\* Runs or its error) is complete before the task asks for the output guard,
\* and no reading or extraction happens while the guard is held; the mutex
\* is held exactly while one source's report is emitted, and the segmentation
\* of each run into MatchTriples happens inside that region, run by run.
C18_RunsStagedBeforeLock ==
    \A i \in Started :
        /\ task[i].pc # "map" => StagedResult(i)
        /\ mutex.holder = i <=> InRegion(i)
        /\ task[i].pc \in {"segment", "triples"} => mutex.holder = i
        /\ task[i].mtriples # <<>> => mutex.holder = i
        /\ task[i].pc = "map" => (mutex.holder # i /\ task[i].result = NoResult)

\* C18 witness: a task holds the guard and prints the triples of its second
\* run, segmented after the lines of the first run were written, while
\* another task has not read its source yet.
C18_Witness ==
    \E i \in Started : \E j \in Started :
        /\ mutex.holder = i
        /\ task[i].pc = "triples"
        /\ task[i].run_index = 1
        /\ task[i].mtriples # <<>>
        /\ \E p \in LinesOf(i) : out[p].kind = "match"
        /\ task[j].pc = "map"

\* ------------------------------------------------------------------------
\* The bounded segmenter against the unbounded one of main.rs (SpecSeg)
\* ------------------------------------------------------------------------
\* C19: with a context_len of at least 1 and at least the number of
\* characters of the run, matcher::segment_on_regex returns the sequence of
\* triples that the segment_on_regex of main.rs returns for the run and the
\* pattern.
C19_BoundedRefinesUnbounded ==
    (SegDone /\ seg_in.context_len >= 1
             /\ seg_in.context_len >= NumChars(seg_in.s)) =>
        /\ ~seg_out.panicked
        /\ seg_out.triples = main_segment_on_regex(seg_in.s, seg_in.re)

\* C19 witness: a run of three characters, one of them of two bytes, with
\* two occurrences and a gap between them, segmented with context_len = 3:
\* the gap is the postamble of the first and the preamble of the second triple.
C19_Witness ==
    /\ SegDone
    /\ seg_in.context_len = 3
    /\ NumChars(seg_in.s) = 3
    /\ Len(seg_in.s) > 3
    /\ Len(seg_out.triples) = 2
    /\ seg_out.triples[1].matched # <<>>
    /\ seg_out.triples[1].postamble # <<>>
    /\ seg_out.triples[2].preamble = seg_out.triples[1].postamble
    /\ seg_out.triples[2].matched # <<>>

\* ------------------------------------------------------------------------
\* Claims about first_n_chars! and last_n_chars! (checked under SpecTrunc)
\* ------------------------------------------------------------------------
TruncDone == mode = "trunc" /\ fn_pc = "done"

\* "Célimène", "Cél" and "ène" in UTF-8.
Str_Celimene == <<67, 195, 169, 108, 105, 109, 195, 168, 110, 101>>
Str_Cel == <<67, 195, 169, 108>>
Str_ene == <<195, 168, 110, 101>>

\* C20: first_n_chars(s, n) is the prefix of s of its first min(n, chars(s))
\* characters and, for n >= 1, last_n_chars(s, n) the suffix of its last
\* min(n, chars(s)) characters; both are s itself when s has fewer than n
\* characters, and both count characters, not bytes: the first 3 of
\* "Célimène" are "Cél", the last 3 "ène".
C20_TruncateByChars ==
    /\ first_n_chars(Str_Celimene, 3) = Str_Cel
    /\ first_n_chars(Str_Celimene, 50) = Str_Celimene
    /\ last_n_chars(Str_Celimene, 3) = Str_ene
    /\ TruncDone =>
           LET s == trunc_in.s
               n == trunc_in.n
           IN  /\ trunc_out.first = FirstChars(s, n)
               /\ NumChars(s) < n => trunc_out.first = s
               /\ n >= 1 =>
                      /\ ~trunc_out.last_panicked
                      /\ trunc_out.last = LastChars(s, n)
                      /\ NumChars(s) < n => trunc_out.last = s

\* C20 witness: the first two and the last two characters of a string of
\* three characters were taken, and each takes three bytes.
C20_Witness ==
    /\ TruncDone
    /\ trunc_in.n = 2
    /\ NumChars(trunc_in.s) = 3
    /\ Len(trunc_out.first) = 3
    /\ Len(trunc_out.last) = 3
    /\ trunc_out.first # trunc_out.last
====
